---- MODULE Spec2Model ----
(***************************************************************************)
(* Model of my_model/DIN.py: the feature-column driven assembly of the     *)
(* Deep Interest Network graph (build_input_layers, build_embedding_layers,*)
(* embedding_lookup, concat_input_list, concat_embedding_list, DIN) and    *)
(* the numeric behaviour of the LocalActivationUnit and the                *)
(* AttentionPoolingLayer on one example of a batch.                        *)
(*                                                                         *)
(* Spec     : one call of DIN(feature_columns, behavior_feature_list,      *)
(*            behavior_seq_feature_list) on arguments drawn from bounded   *)
(*            sets.  Keras tensors are symbolic: a tensor is the record    *)
(*            [op, layer, shape, args], shape without the batch axis.      *)
(* SpecAtt  : the Embedding call on a history and the call of              *)
(*            AttentionPoolingLayer on its result, over integers.          *)
(***************************************************************************)
EXTENDS Integers, Sequences, FiniteSets, TLC

VARIABLES
    \* ---- DIN(...) : arguments, locals and result
    feature_columns, behavior_feature_list, behavior_seq_feature_list,
    input_layer_dict, input_layers, dnn_dense_input, embedding_layer_dict,
    dnn_sparse_input, query_embed_list, keys_embed_list, dnn_seq_input_list,
    dnn_seq_input, model, error, raised_at, pc,
    \* ---- one example through Embedding and AttentionPoolingLayer
    emb_weights, hist, query, att_seed, keys, key_masks, attention_score,
    pooled, apc

dinVars == <<feature_columns, behavior_feature_list, behavior_seq_feature_list,
             input_layer_dict, input_layers, dnn_dense_input,
             embedding_layer_dict, dnn_sparse_input, query_embed_list,
             keys_embed_list, dnn_seq_input_list, dnn_seq_input, model, error,
             raised_at,
             pc>>

attVars == <<emb_weights, hist, query, att_seed, keys, key_masks,
             attention_score, pooled, apc>>

vars == <<dinVars, attVars>>

----------------------------------------------------------------------------
(* Bounds of the model *)

\* longest schema handed to DIN
MaxCols == 3
\* longest behavior_feature_list / behavior_seq_feature_list handed to DIN
MaxBeh == 2
\* longest history fed to the attention layers
MaxLen == 2
\* width of the embedding vectors fed to the attention layers
EmbDim == 2
\* the weight sets of the Local Activation Unit are numbered 0..MaxSeed
MaxSeed == 1
\* vocabulary_size of the history feature fed to the attention layers
HistVocab == 1

----------------------------------------------------------------------------
(* Sequences helpers *)

SeqsUpTo(S, n) == UNION {[1..k -> S] : k \in 0..n}

RECURSIVE SumSeq(_)
SumSeq(s) == IF s = <<>> THEN 0 ELSE Head(s) + SumSeq(Tail(s))

RECURSIVE ProdSeq(_)
ProdSeq(s) == IF s = <<>> THEN 1 ELSE Head(s) * ProdSeq(Tail(s))

----------------------------------------------------------------------------
(* Feature descriptors (utils.SparseFeat, DenseFeat, VarLenSparseFeat) *)

SparseFeat(name, vocabulary_size, embedding_dim) ==
    [kind |-> "SparseFeat", name |-> name, vocabulary_size |-> vocabulary_size,
     embedding_dim |-> embedding_dim, dimension |-> 0, maxlen |-> 0]

DenseFeat(name, dimension) ==
    [kind |-> "DenseFeat", name |-> name, vocabulary_size |-> 0,
     embedding_dim |-> 0, dimension |-> dimension, maxlen |-> 0]

VarLenSparseFeat(name, vocabulary_size, embedding_dim, maxlen) ==
    [kind |-> "VarLenSparseFeat", name |-> name,
     vocabulary_size |-> vocabulary_size, embedding_dim |-> embedding_dim,
     dimension |-> 0, maxlen |-> maxlen]

\* The descriptors a schema is drawn from.  Names are not forced to be
\* unique: the code never checks it.
FeatureUniverse ==
    { SparseFeat("user_id", 3, 2),
      SparseFeat("candidate_id", 2, 2),
      VarLenSparseFeat("history", 2, 2, 2),
      VarLenSparseFeat("candidate_id", 2, 2, 1),
      DenseFeat("history", 1),
      DenseFeat("user_id", 2) }

\* The names the behavior lists are drawn from.  Any of them can be absent
\* from a schema, or name a descriptor that has no embedding table.
BehaviorNames == {"history", "candidate_id"}

----------------------------------------------------------------------------
(* Python dict: insertion ordered; assigning to a present key keeps its    *)
(* place and replaces its value.                                           *)

DictKeys(d) == {d[i].key : i \in 1..Len(d)}

DictHas(d, k) == \E i \in 1..Len(d) : d[i].key = k

DictGet(d, k) == d[CHOOSE i \in 1..Len(d) : d[i].key = k].val

DictSet(d, k, v) ==
    IF DictHas(d, k)
    THEN [i \in 1..Len(d) |-> IF d[i].key = k THEN [key |-> k, val |-> v] ELSE d[i]]
    ELSE Append(d, [key |-> k, val |-> v])

DictValues(d) == [i \in 1..Len(d) |-> d[i].val]

----------------------------------------------------------------------------
(* Symbolic Keras tensors and layers *)

None == [op |-> "None", layer |-> "", shape |-> <<>>, args |-> <<>>]

Input(shape, name) ==
    [op |-> "Input", layer |-> name, shape |-> shape, args |-> <<>>]

\* Embedding(input_dim, output_dim, name='emb_' + name, mask_zero=...)
Embedding(input_dim, output_dim, name, mask_zero) ==
    [input_dim |-> input_dim, output_dim |-> output_dim, name |-> name,
     mask_zero |-> mask_zero]

\* _embed(_input): one vector of output_dim per entry of the input
EmbeddingCall(_embed, _input) ==
    [op |-> "Embedding", layer |-> _embed.name,
     shape |-> _input.shape \o <<_embed.output_dim>>, args |-> <<_input>>]

Flatten(t) ==
    [op |-> "Flatten", layer |-> "", shape |-> <<ProdSeq(t.shape)>>,
     args |-> <<t>>]

\* Concatenate(axis=1)(input_list).  Raises when an element is no tensor, or
\* when the ranks or the sizes off the axis differ.
ConcatenateOk(input_list) ==
    /\ \A i \in 1..Len(input_list) : input_list[i] # None
    /\ \A i, j \in 1..Len(input_list) :
          /\ Len(input_list[i].shape) = Len(input_list[j].shape)
          /\ Len(input_list[i].shape) >= 1
          /\ Tail(input_list[i].shape) = Tail(input_list[j].shape)

Concatenate(input_list) ==
    [op |-> "Concatenate", layer |-> "",
     shape |-> <<SumSeq([i \in 1..Len(input_list) |-> input_list[i].shape[1]])>>
               \o Tail(input_list[1].shape),
     args |-> input_list]

DenseLayer(units, activation, x) ==
    [op |-> "Dense", layer |-> activation,
     shape |-> SubSeq(x.shape, 1, Len(x.shape) - 1) \o <<units>>,
     args |-> <<x>>]

----------------------------------------------------------------------------
(* Results of calls that can raise: err = "" when the call returned val *)

Ok(v) == [err |-> "", val |-> v]

Raise(e) == [err |-> e, val |-> None]

----------------------------------------------------------------------------
(* build_input_layers *)

\* a VarLenSparse slot sized like a Sparse one
InputForScalar(fc) ==
    IF fc.kind = "DenseFeat" THEN Input(<<fc.dimension>>, fc.name)
    ELSE Input(<<1>>, fc.name)

InputFor(fc) ==
    IF fc.kind = "SparseFeat" THEN Input(<<1>>, fc.name)
    ELSE IF fc.kind = "DenseFeat" THEN Input(<<fc.dimension>>, fc.name)
    ELSE Input(<<fc.maxlen>>, fc.name)

RECURSIVE InputLoop(_, _)
InputLoop(fcs, d) ==
    IF fcs = <<>> THEN d
    ELSE InputLoop(Tail(fcs), DictSet(d, Head(fcs).name, InputFor(Head(fcs))))

build_input_layers(fcs) == InputLoop(fcs, <<>>)

(* build_embedding_layers *)

\* no row reserved for the padding index
EmbeddingForNoPadRow(fc) ==
    Embedding(fc.vocabulary_size, fc.embedding_dim, fc.name,
              fc.kind = "VarLenSparseFeat")

EmbeddingFor(fc) ==
    IF fc.kind = "SparseFeat"
    THEN Embedding(fc.vocabulary_size, fc.embedding_dim, fc.name, FALSE)
    ELSE Embedding(fc.vocabulary_size + 1, fc.embedding_dim, fc.name, TRUE)

RECURSIVE EmbeddingLoop(_, _)
EmbeddingLoop(fcs, d) ==
    IF fcs = <<>> THEN d
    ELSE IF Head(fcs).kind \in {"SparseFeat", "VarLenSparseFeat"}
    THEN EmbeddingLoop(Tail(fcs), DictSet(d, Head(fcs).name, EmbeddingFor(Head(fcs))))
    ELSE EmbeddingLoop(Tail(fcs), d)

build_embedding_layers(fcs, ild) == EmbeddingLoop(fcs, <<>>)

(* embedding_lookup: the names are the dictionary keys themselves *)

LookupOne(name, ild, eld) ==
    IF DictHas(ild, name) /\ DictHas(eld, name)
    THEN Ok(EmbeddingCall(DictGet(eld, name), DictGet(ild, name)))
    ELSE Raise("KeyError")

RECURSIVE LookupLoop(_, _, _, _)
LookupLoop(names, ild, eld, embedding_list) ==
    IF names = <<>> THEN Ok(embedding_list)
    ELSE LET r == LookupOne(Head(names), ild, eld)
         IN  IF r.err # "" THEN [err |-> r.err, val |-> <<>>]
             ELSE LookupLoop(Tail(names), ild, eld, Append(embedding_list, r.val))

\* a name without an entry is skipped
RECURSIVE LookupLoopSkipping(_, _, _, _)
LookupLoopSkipping(names, ild, eld, embedding_list) ==
    IF names = <<>> THEN Ok(embedding_list)
    ELSE LET r == LookupOne(Head(names), ild, eld)
         IN  IF r.err # "" THEN LookupLoopSkipping(Tail(names), ild, eld, embedding_list)
             ELSE LookupLoopSkipping(Tail(names), ild, eld,
                                     Append(embedding_list, r.val))

embedding_lookup_skipping(names, ild, eld) ==
    LookupLoopSkipping(names, ild, eld, <<>>)

embedding_lookup(names, ild, eld) == LookupLoop(names, ild, eld, <<>>)

(* concat_input_list *)

\* a single element is wrapped in a concatenation as well
concat_input_list_wrapping(input_list) ==
    IF Len(input_list) >= 1
    THEN IF ConcatenateOk(input_list) THEN Ok(Concatenate(input_list))
         ELSE Raise("ValueError")
    ELSE Ok(None)

concat_input_list(input_list) ==
    IF Len(input_list) > 1
    THEN IF ConcatenateOk(input_list) THEN Ok(Concatenate(input_list))
         ELSE Raise("ValueError")
    ELSE IF Len(input_list) = 1 THEN Ok(input_list[1])
    ELSE Ok(None)

(* concat_embedding_list: the descriptors' names are the keys *)

RECURSIVE ConcatEmbLoop(_, _, _, _, _)
ConcatEmbLoop(fcs, ild, eld, flatten, embedding_list) ==
    IF fcs = <<>> THEN Ok(embedding_list)
    ELSE LET r == LookupOne(Head(fcs).name, ild, eld)
             embed == IF flatten THEN Flatten(r.val) ELSE r.val
         IN  IF r.err # "" THEN [err |-> r.err, val |-> <<>>]
             ELSE ConcatEmbLoop(Tail(fcs), ild, eld, flatten,
                                Append(embedding_list, embed))

concat_embedding_list(fcs, ild, eld, flatten) ==
    ConcatEmbLoop(fcs, ild, eld, flatten, <<>>)

(* get_dnn_logits: Dense(200), Dense(80) with PReLU, then Dense(1, sigmoid) *)

dnn_hidden_units == <<200, 80>>

RECURSIVE DnnLoop(_, _)
DnnLoop(units, x) ==
    IF units = <<>> THEN x
    ELSE DnnLoop(Tail(units), DenseLayer(Head(units), "prelu", x))

get_dnn_logits(dnn_input) ==
    DenseLayer(1, "sigmoid", DnnLoop(dnn_hidden_units, dnn_input))

(* Graph-building call AttentionPoolingLayer()([query, keys]).  The Local  *)
(* Activation Unit tiles the query keys_len times along axis 1 and         *)
(* concatenates it with keys, query - keys and query * keys on the last    *)
(* axis, which raises unless the tiled query is as long as keys and the    *)
(* last axes broadcast. The pooled tensor has the keys' last axis.         *)

AttentionShapesOk(q, k) ==
    /\ Len(q.shape) = 2 /\ Len(k.shape) = 2
    /\ q.shape[1] * k.shape[1] = k.shape[1]
    /\ \/ q.shape[2] = k.shape[2]
       \/ q.shape[2] = 1
       \/ k.shape[2] = 1

AttentionPoolingLayerBuild(q, k) ==
    IF AttentionShapesOk(q, k)
    THEN Ok([op |-> "AttentionPooling", layer |-> "", shape |-> <<k.shape[2]>>,
             args |-> <<q, k>>])
    ELSE Raise("ValueError")

IsSparse(fc) == fc.kind = "SparseFeat"

IsDense(fc) == fc.kind = "DenseFeat"

----------------------------------------------------------------------------
(* DIN(feature_columns, behavior_feature_list, behavior_seq_feature_list)  *)

\* every history is pooled against the first candidate
RECURSIVE PoolLoopFirstQuery(_, _, _, _)
PoolLoopFirstQuery(qs, ks, i, acc) ==
    IF i > Len(ks) THEN [err |-> "", val |-> acc]
    ELSE IF i > Len(qs) THEN [err |-> "IndexError", val |-> acc]
    ELSE LET r == AttentionPoolingLayerBuild(qs[1], ks[i])
         IN  IF r.err # "" THEN [err |-> r.err, val |-> acc]
             ELSE PoolLoopFirstQuery(qs, ks, i + 1, Append(acc, r.val))

\* the attention pooling loop: for i in range(len(keys_embed_list))
RECURSIVE PoolLoop(_, _, _, _)
PoolLoop(qs, ks, i, acc) ==
    IF i > Len(ks) THEN [err |-> "", val |-> acc]
    ELSE IF i > Len(qs) THEN [err |-> "IndexError", val |-> acc]
    ELSE LET r == AttentionPoolingLayerBuild(qs[i], ks[i])
         IN  IF r.err # "" THEN [err |-> r.err, val |-> acc]
             ELSE PoolLoop(qs, ks, i + 1, Append(acc, r.val))

\* the locals of a call that has not got to assign them; raised_at names the
\* assignment whose right-hand side raised
Unset == [input_layer_dict |-> <<>>, input_layers |-> <<>>,
          dnn_dense_input |-> None, embedding_layer_dict |-> <<>>,
          dnn_sparse_input |-> None, query_embed_list |-> <<>>,
          keys_embed_list |-> <<>>, dnn_seq_input_list |-> <<>>,
          dnn_seq_input |-> None,
          model |-> None, error |-> "", raised_at |-> ""]

DINRun(fcs, bfl, bsfl) ==
    LET ild    == build_input_layers(fcs)
        ils    == DictValues(ild)
        sparse == SelectSeq(fcs, IsSparse)
        dense  == SelectSeq(fcs, IsDense)
        dlist  == [i \in 1..Len(dense) |-> DictGet(ild, dense[i].name)]
        dcat   == concat_input_list(dlist)
        s1     == [Unset EXCEPT !.input_layer_dict = ild, !.input_layers = ils]
    IN
    IF dcat.err # "" THEN [s1 EXCEPT !.error = dcat.err, !.raised_at = "dnn_dense_input"] ELSE
    LET eld    == build_embedding_layers(fcs, ild)
        semb   == concat_embedding_list(sparse, ild, eld, TRUE)
        s2     == [s1 EXCEPT !.dnn_dense_input = dcat.val,
                             !.embedding_layer_dict = eld]
    IN
    IF semb.err # "" THEN [s2 EXCEPT !.error = semb.err, !.raised_at = "dnn_sparse_embed_input"] ELSE
    LET scat   == concat_input_list(semb.val)
    IN
    IF scat.err # "" THEN [s2 EXCEPT !.error = scat.err, !.raised_at = "dnn_sparse_input"] ELSE
    LET s3     == [s2 EXCEPT !.dnn_sparse_input = scat.val]
        qel    == embedding_lookup(bfl, ild, eld)
    IN
    IF qel.err # "" THEN [s3 EXCEPT !.error = qel.err, !.raised_at = "query_embed_list"] ELSE
    LET s4     == [s3 EXCEPT !.query_embed_list = qel.val]
        kel    == embedding_lookup(bsfl, ild, eld)
    IN
    IF kel.err # "" THEN [s4 EXCEPT !.error = kel.err, !.raised_at = "keys_embed_list"] ELSE
    LET pool   == PoolLoop(qel.val, kel.val, 1, <<>>)
        s5     == [s4 EXCEPT !.keys_embed_list = kel.val,
                             !.dnn_seq_input_list = pool.val]
    IN
    IF pool.err # "" THEN [s5 EXCEPT !.error = pool.err, !.raised_at = "seq_emb"] ELSE
    LET qcat   == concat_input_list(pool.val)
    IN
    IF qcat.err # "" THEN [s5 EXCEPT !.error = qcat.err, !.raised_at = "dnn_seq_input"] ELSE
    LET parts  == <<dcat.val, scat.val, qcat.val>>
        s6     == [s5 EXCEPT !.dnn_seq_input = qcat.val]
    IN
    IF ~ConcatenateOk(parts) THEN [s6 EXCEPT !.error = "ValueError", !.raised_at = "dnn_input"] ELSE
    [s6 EXCEPT !.model = [op |-> "Model", layer |-> "", shape |-> <<1>>,
                          args |-> <<ils, get_dnn_logits(Concatenate(parts))>>]]

DIN ==
    /\ pc = "call"
    /\ \E r \in {DINRun(feature_columns, behavior_feature_list,
                       behavior_seq_feature_list)} :
           /\ input_layer_dict' = r.input_layer_dict
           /\ input_layers' = r.input_layers
           /\ dnn_dense_input' = r.dnn_dense_input
           /\ embedding_layer_dict' = r.embedding_layer_dict
           /\ dnn_sparse_input' = r.dnn_sparse_input
           /\ query_embed_list' = r.query_embed_list
           /\ keys_embed_list' = r.keys_embed_list
           /\ dnn_seq_input_list' = r.dnn_seq_input_list
           /\ dnn_seq_input' = r.dnn_seq_input
           /\ model' = r.model
           /\ error' = r.error
           /\ raised_at' = r.raised_at
           /\ pc' = IF r.error = "" THEN "returned" ELSE "raised"
    /\ UNCHANGED <<feature_columns, behavior_feature_list,
                   behavior_seq_feature_list>>
    /\ UNCHANGED attVars

\* the arguments of the call, nothing assigned yet
DinInit ==
    /\ feature_columns \in SeqsUpTo(FeatureUniverse, MaxCols)
    /\ behavior_feature_list \in SeqsUpTo(BehaviorNames, MaxBeh)
    /\ behavior_seq_feature_list \in SeqsUpTo(BehaviorNames, MaxBeh)
    /\ input_layer_dict = <<>>
    /\ input_layers = <<>>
    /\ dnn_dense_input = None
    /\ embedding_layer_dict = <<>>
    /\ dnn_sparse_input = None
    /\ query_embed_list = <<>>
    /\ keys_embed_list = <<>>
    /\ dnn_seq_input_list = <<>>
    /\ dnn_seq_input = None
    /\ model = None
    /\ error = ""
    /\ raised_at = ""
    /\ pc = "call"

----------------------------------------------------------------------------
(* One example through the history Embedding and AttentionPoolingLayer.    *)
(* Every operation of the two layers acts on the examples of a batch       *)
(* independently (tile multiples [1, keys_len, 1], batched matmul), so the *)
(* batch axis is left out.  Weights and inputs are integers.               *)

\* the vectors an embedding row can hold: any first coordinate, the others equal
FirstVals == {-1, 0, 1}

RestVals == {0, 1}

RowSet == {[d \in 1..EmbDim |-> IF d = 1 THEN a ELSE b] :
              a \in FirstVals, b \in RestVals}

\* row i of the table is emb_weights[i + 1]; the VarLenSparse table has
\* vocabulary_size + 1 rows
HistRows == EmbeddingFor(VarLenSparseFeat("history", HistVocab, EmbDim, MaxLen)).input_dim

\* Embedding.call: gather the rows of the table
EmbeddingGather(weights, indices) ==
    [i \in 1..Len(indices) |-> weights[indices[i] + 1]]

\* widths of the Local Activation Unit's hidden layers, (256, 128, 64) in the
\* code, scaled down
att_hidden_units == <<2, 2, 1>>

\* learned parameters, a fixed function of the weight set seed
Kernel(layer, n, m, seed) == ((n + 2 * m + layer + seed) % 3) - 1

Bias(layer, m, seed) == (m + layer + seed) % 2

Alpha(layer, pos, m, seed) == (pos + m + layer + seed) % 2

PReLU(a, x) == IF x >= 0 THEN x ELSE a * x

RECURSIVE Dot(_, _, _, _, _)
Dot(x, layer, m, seed, n) ==
    IF n = 0 THEN 0
    ELSE x[n] * Kernel(layer, n, m, seed) + Dot(x, layer, m, seed, n - 1)

\* Dense(unit, activation=PReLU()) on the vector of one position
DenseCall(x, layer, units, pos, seed) ==
    [m \in 1..units |->
        PReLU(Alpha(layer, pos, m, seed),
              Dot(x, layer, m, seed, Len(x)) + Bias(layer, m, seed))]

RECURSIVE DnnCall(_, _, _, _)
DnnCall(x, layer, pos, seed) ==
    IF layer > Len(att_hidden_units) THEN x
    ELSE DnnCall(DenseCall(x, layer, att_hidden_units[layer], pos, seed),
                 layer + 1, pos, seed)

\* self.linear = Dense(1), then squeeze
LinearCall(x, seed) ==
    Dot(x, Len(att_hidden_units) + 1, 1, seed, Len(x))
        + Bias(Len(att_hidden_units) + 1, 1, seed)

\* [queries, keys, queries - keys, queries * keys] on the last axis
AttInput(q, k) ==
    q \o k \o [d \in 1..Len(q) |-> q[d] - k[d]] \o [d \in 1..Len(q) |-> q[d] * k[d]]

ScoreAt(q, k, pos, seed) == LinearCall(DnnCall(AttInput(q, k), 1, pos, seed), seed)

\* the scores of masked positions are zeroed inside the unit
LocalActivationUnitMasking(q, ks, seed) ==
    [i \in 1..Len(ks) |-> IF ks[i][1] # 0 THEN ScoreAt(q, ks[i], i, seed) ELSE 0]

\* LocalActivationUnit.call([query, keys]) : B x len
LocalActivationUnit(q, ks, seed) ==
    [i \in 1..Len(ks) |-> ScoreAt(q, ks[i], i, seed)]

\* a position is valid when any coordinate of its key is nonzero
KeyMaskAnyCoordinate(k) == \E d \in 1..Len(k) : k[d] # 0

\* tf.not_equal(keys[:, :, 0], 0)
KeyMask(k) == k[1] # 0

\* masked scores replaced by one
PaddingsOnes(score) == [i \in 1..Len(score) |-> 1]

\* tf.zeros_like(attention_score)
Paddings(score) == [i \in 1..Len(score) |-> 0]

\* tf.where(key_masks, attention_score, paddings)
Where(masks, score, paddings) ==
    [i \in 1..Len(score) |-> IF masks[i] THEN score[i] ELSE paddings[i]]

RECURSIVE MatMulAt(_, _, _, _)
MatMulAt(w, ks, d, i) ==
    IF i = 0 THEN 0 ELSE w[i] * ks[i][d] + MatMulAt(w, ks, d, i - 1)

\* tf.matmul(1 x len, len x dim), squeezed
MatMul(w, ks) == [d \in 1..EmbDim |-> MatMulAt(w, ks, d, Len(ks))]

AttentionPoolingLayer(q, ks, seed) ==
    LET masks == [i \in 1..Len(ks) |-> KeyMask(ks[i])]
        score == LocalActivationUnit(q, ks, seed)
        outs  == Where(masks, score, Paddings(score))
    IN  [key_masks |-> masks, attention_score |-> score,
         outputs |-> MatMul(outs, ks)]

\* keys_embed = emb_history(history input)
EmbedHistory ==
    /\ apc = "fed"
    /\ keys' = EmbeddingGather(emb_weights, hist)
    /\ apc' = "embedded"
    /\ UNCHANGED <<emb_weights, hist, query, att_seed, key_masks,
                   attention_score, pooled>>
    /\ UNCHANGED dinVars

\* AttentionPoolingLayer()([query_embed, keys_embed])
AttentionPooling ==
    /\ apc = "embedded"
    /\ \E r \in {AttentionPoolingLayer(query, keys, att_seed)} :
          /\ key_masks' = r.key_masks
          /\ attention_score' = r.attention_score
          /\ pooled' = r.outputs
    /\ apc' = "pooled"
    /\ UNCHANGED <<emb_weights, hist, query, att_seed, keys>>
    /\ UNCHANGED dinVars

\* a batch example, the current weights of the history table and of the
\* Local Activation Unit
AttInit ==
    /\ emb_weights \in [1..HistRows -> RowSet]
    /\ hist \in SeqsUpTo(0..HistVocab, MaxLen)
    /\ query \in RowSet
    /\ att_seed \in 0..MaxSeed
    /\ keys = <<>>
    /\ key_masks = <<>>
    /\ attention_score = <<>>
    /\ pooled = <<>>
    /\ apc = "fed"

DinIdle ==
    /\ feature_columns = <<>>
    /\ behavior_feature_list = <<>>
    /\ behavior_seq_feature_list = <<>>
    /\ input_layer_dict = <<>>
    /\ input_layers = <<>>
    /\ dnn_dense_input = None
    /\ embedding_layer_dict = <<>>
    /\ dnn_sparse_input = None
    /\ query_embed_list = <<>>
    /\ keys_embed_list = <<>>
    /\ dnn_seq_input_list = <<>>
    /\ dnn_seq_input = None
    /\ model = None
    /\ error = ""
    /\ raised_at = ""
    /\ pc = "idle"

InitAtt == DinIdle /\ AttInit

NextAtt == EmbedHistory \/ AttentionPooling

SpecAtt == InitAtt /\ [][NextAtt]_vars

AttIdle ==
    /\ emb_weights = <<>>
    /\ hist = <<>>
    /\ query = <<>>
    /\ att_seed = 0
    /\ keys = <<>>
    /\ key_masks = <<>>
    /\ attention_score = <<>>
    /\ pooled = <<>>
    /\ apc = "idle"

Init == DinInit /\ AttIdle

Next == DIN

Spec == Init /\ [][Next]_vars

----------------------------------------------------------------------------
(* Properties *)

Done == pc \in {"returned", "raised"}

UniqueNames(fcs) ==
    \A i, j \in 1..Len(fcs) : fcs[i].name = fcs[j].name => i = j

ZeroVector == [d \in 1..EmbDim |-> 0]

\* C1: DIN called on the schema [Sparse user_id, VarLenSparse history,
\* Sparse candidate_id], which has no Dense descriptor, with
\* behavior_feature_list = [candidate_id] and behavior_seq_feature_list =
\* [history], completes construction and returns a model with one sigmoid
\* output per example; construction does not abort.
C1_NoDenseSchemaBuilds ==
    ( /\ Done
      /\ feature_columns = << SparseFeat("user_id", 3, 2),
                              VarLenSparseFeat("history", 2, 2, 2),
                              SparseFeat("candidate_id", 2, 2) >>
      /\ behavior_feature_list = <<"candidate_id">>
      /\ behavior_seq_feature_list = <<"history">> )
    => /\ pc = "returned"
       /\ model.op = "Model"
       /\ model.args[2].shape = <<1>>
       /\ model.args[2].layer = "sigmoid"

\* C2: a history position holding the padding index 0 is treated as masked
\* by AttentionPoolingLayer and adds nothing to the pooled output, whatever
\* vector row 0 of the embedding table holds.
C2_PaddingIndexMasked ==
    apc = "pooled" =>
        \A i \in 1..Len(hist) :
            hist[i] = 0 =>
                /\ ~key_masks[i]
                /\ \A d \in 1..EmbDim :
                      (IF key_masks[i] THEN attention_score[i] ELSE 0) * keys[i][d] = 0

\* C3: if the first coordinate of every key vector is 0, AttentionPoolingLayer
\* returns the all-zero vector of the embedding width, whatever the scores and
\* the other coordinates of the keys are (any history length, 0 included).
C3_AllMaskedGivesZero ==
    ( /\ apc = "pooled"
      /\ \A i \in 1..Len(keys) : keys[i][1] = 0 )
    => pooled = ZeroVector

C3_Witness ==
    /\ apc = "pooled"
    /\ Len(keys) >= 2
    /\ \A i \in 1..Len(keys) : keys[i][1] = 0
    /\ \E i \in 1..Len(keys) :
          /\ attention_score[i] # 0
          /\ \E d \in 2..EmbDim : keys[i][d] # 0
    /\ pooled = ZeroVector

\* C4: if exactly one history position j is unmasked and its score is s, the
\* pooled output is s * keys[j]: the scores are linear weights, nothing is
\* renormalised and the masked positions add nothing.
C4_SingleUnmaskedIsLinear ==
    apc = "pooled" =>
        \A j \in 1..Len(keys) :
            ( /\ keys[j][1] # 0
              /\ \A i \in 1..Len(keys) : i # j => keys[i][1] = 0 )
            => pooled = [d \in 1..EmbDim |-> attention_score[j] * keys[j][d]]

C4_Witness ==
    /\ apc = "pooled"
    /\ \E j \in 1..Len(keys) :
          /\ keys[j][1] # 0
          /\ attention_score[j] \notin {0, 1}
          /\ \A i \in 1..Len(keys) : i # j => keys[i][1] = 0
          /\ \E i \in 1..Len(keys) :
                /\ i # j
                /\ attention_score[i] # 0
                /\ \E d \in 2..EmbDim : keys[i][d] # 0
          /\ pooled = [d \in 1..EmbDim |-> attention_score[j] * keys[j][d]]
          /\ pooled # ZeroVector

\* C5: if a name of behavior_feature_list or behavior_seq_feature_list has no
\* entry in the input-slot dictionary or in the embedding-table dictionary,
\* embedding_lookup raises a lookup error and DIN aborts without a model; the
\* name is not skipped.
MissingName(name) ==
    \/ ~DictHas(input_layer_dict, name)
    \/ ~DictHas(embedding_layer_dict, name)

SomeNameMissing ==
    \/ \E i \in 1..Len(behavior_feature_list) : MissingName(behavior_feature_list[i])
    \/ \E i \in 1..Len(behavior_seq_feature_list) :
          MissingName(behavior_seq_feature_list[i])

C5_MissingNameAborts ==
    (Done /\ SomeNameMissing)
    => /\ pc = "raised"
       /\ error = "KeyError"
       /\ raised_at \in {"query_embed_list", "keys_embed_list"}
       /\ model = None
       /\ dnn_seq_input_list = <<>>

C5_Witness ==
    /\ pc = "raised"
    /\ error = "KeyError"
    /\ raised_at = "keys_embed_list"
    /\ Len(query_embed_list) = 2
    /\ \E i \in 1..Len(behavior_seq_feature_list) :
          /\ DictHas(input_layer_dict, behavior_seq_feature_list[i])
          /\ ~DictHas(embedding_layer_dict, behavior_seq_feature_list[i])
    /\ model = None

\* C6: build_embedding_layers creates, under the descriptor's name, a table
\* of vocabulary_size rows for a Sparse descriptor and of vocabulary_size + 1
\* rows for a VarLenSparse descriptor, and no table for a Dense descriptor:
\* the dictionary has exactly the names of the Sparse and VarLenSparse
\* descriptors, and each name holds the table of the last descriptor that
\* carries it (the only one when names are unique).
HasTable(fc) == fc.kind \in {"SparseFeat", "VarLenSparseFeat"}

LastWithTable(i) ==
    /\ HasTable(feature_columns[i])
    /\ \A j \in (i + 1)..Len(feature_columns) :
          HasTable(feature_columns[j]) =>
              feature_columns[j].name # feature_columns[i].name

C6_TableRows ==
    Done =>
        /\ DictKeys(embedding_layer_dict) =
              {feature_columns[i].name :
                  i \in {k \in 1..Len(feature_columns) : HasTable(feature_columns[k])}}
        /\ \A i, j \in 1..Len(embedding_layer_dict) :
              embedding_layer_dict[i].key = embedding_layer_dict[j].key => i = j
        /\ \A i \in 1..Len(feature_columns) :
              LastWithTable(i) =>
                 LET fc == feature_columns[i]
                     t  == DictGet(embedding_layer_dict, fc.name)
                 IN  /\ t.name = fc.name
                     /\ t.output_dim = fc.embedding_dim
                     /\ fc.kind = "SparseFeat" => t.input_dim = fc.vocabulary_size
                     /\ fc.kind = "VarLenSparseFeat" =>
                           t.input_dim = fc.vocabulary_size + 1

C6_Witness ==
    /\ Done
    /\ UniqueNames(feature_columns)
    /\ \E i, j, k \in 1..Len(feature_columns) :
          /\ feature_columns[i].kind = "SparseFeat"
          /\ feature_columns[j].kind = "VarLenSparseFeat"
          /\ feature_columns[k].kind = "DenseFeat"
          /\ DictGet(embedding_layer_dict, feature_columns[i].name).input_dim = 3
          /\ DictGet(embedding_layer_dict, feature_columns[j].name).input_dim = 3
          /\ ~DictHas(embedding_layer_dict, feature_columns[k].name)
    /\ Len(embedding_layer_dict) = 2

\* C7: concat_input_list returns None for an empty list, the sole element
\* itself for a one-element list, and the axis-1 concatenation of the
\* elements in list order for two or more.  Checked on the three lists DIN
\* hands to it: the Dense inputs, the flattened Sparse embeddings and the
\* pooled vectors.
AsClaimedOfConcat(input_list, result) ==
    /\ Len(input_list) = 0 => result = None
    /\ Len(input_list) = 1 => result = input_list[1]
    /\ Len(input_list) >= 2 =>
          /\ result.op = "Concatenate"
          /\ result.args = input_list
          /\ Len(result.shape) = 1
          /\ result.shape[1] =
                SumSeq([i \in 1..Len(input_list) |-> input_list[i].shape[1]])

DenseInputs ==
    LET dense == SelectSeq(feature_columns, IsDense)
    IN  [i \in 1..Len(dense) |-> DictGet(input_layer_dict, dense[i].name)]

SparseEmbeds ==
    LET sparse == SelectSeq(feature_columns, IsSparse)
    IN  [i \in 1..Len(sparse) |->
            LET t == DictGet(embedding_layer_dict, sparse[i].name)
                x == DictGet(input_layer_dict, sparse[i].name)
            IN  [op |-> "Flatten", layer |-> "",
                 shape |-> <<x.shape[1] * t.output_dim>>,
                 args |-> << [op |-> "Embedding", layer |-> t.name,
                              shape |-> <<x.shape[1], t.output_dim>>,
                              args |-> <<x>>] >>]]

PoolingDone == pc = "returned" \/ raised_at \in {"dnn_seq_input", "dnn_input"}

C7_ConcatInputList ==
    Done =>
        /\ AsClaimedOfConcat(DenseInputs, dnn_dense_input)
        /\ AsClaimedOfConcat(SparseEmbeds, dnn_sparse_input)
        /\ (pc = "returned" \/ raised_at = "dnn_input") =>
              AsClaimedOfConcat(dnn_seq_input_list, dnn_seq_input)

C7_Witness ==
    /\ pc = "raised"
    /\ raised_at = "dnn_input"
    /\ UniqueNames(feature_columns)
    /\ Len(DenseInputs) = 2
    /\ dnn_dense_input.op = "Concatenate"
    /\ dnn_dense_input.args = DenseInputs
    /\ DenseInputs[1] # DenseInputs[2]
    /\ Len(SparseEmbeds) = 0
    /\ dnn_sparse_input = None
    /\ Len(dnn_seq_input_list) = 1
    /\ dnn_seq_input = dnn_seq_input_list[1]
    /\ dnn_seq_input.op = "AttentionPooling"

\* C8: for every history length L, 0 included, LocalActivationUnit returns
\* exactly L scores, the i-th being the network's score of the i-th history
\* position, with no masking and no normalisation applied.
C8_OneScorePerPosition ==
    apc = "pooled" =>
        /\ Len(attention_score) = Len(keys)
        /\ Len(keys) = Len(hist)
        /\ \A i \in 1..Len(keys) :
              attention_score[i] =
                  LinearCall(DnnCall(AttInput(query, keys[i]), 1, i, att_seed),
                             att_seed)

C8_Witness ==
    /\ apc = "pooled"
    /\ Len(keys) = MaxLen
    /\ Len(attention_score) = MaxLen
    /\ \E i \in 1..Len(keys) : keys[i][1] = 0 /\ attention_score[i] # 0
    /\ \E i, j \in 1..Len(keys) : attention_score[i] # attention_score[j]

C8_WitnessEmpty ==
    /\ apc = "pooled"
    /\ keys = <<>>
    /\ attention_score = <<>>

\* C9: for a descriptor list with unique names build_input_layers returns
\* exactly one input slot per descriptor, in descriptor order, keyed and
\* named by the descriptor's name, of width 1 for Sparse, dimension for Dense
\* and maxlen for VarLenSparse; DIN's input list has the length of
\* feature_columns and is the input list of the model DIN returns.
SlotWidth(fc) ==
    IF fc.kind = "SparseFeat" THEN 1
    ELSE IF fc.kind = "DenseFeat" THEN fc.dimension
    ELSE fc.maxlen

C9_OneSlotPerDescriptor ==
    (Done /\ UniqueNames(feature_columns)) =>
        /\ Len(input_layer_dict) = Len(feature_columns)
        /\ \A i \in 1..Len(feature_columns) :
              /\ input_layer_dict[i].key = feature_columns[i].name
              /\ input_layer_dict[i].val.op = "Input"
              /\ input_layer_dict[i].val.layer = feature_columns[i].name
              /\ input_layer_dict[i].val.shape = <<SlotWidth(feature_columns[i])>>
              /\ input_layers[i] = input_layer_dict[i].val
        /\ Len(input_layers) = Len(feature_columns)
        /\ pc = "returned" => model.args[1] = input_layers

C9_Witness ==
    /\ pc = "returned"
    /\ UniqueNames(feature_columns)
    /\ Len(feature_columns) = 3
    /\ Len(model.args[1]) = 3
    /\ \E i \in 1..3 : /\ feature_columns[i].kind = "VarLenSparseFeat"
                       /\ input_layers[i].shape = <<2>>
    /\ \E i \in 1..3 : /\ feature_columns[i].kind = "DenseFeat"
                       /\ input_layers[i].shape = <<2>>
    /\ \E i \in 1..3 : /\ feature_columns[i].kind = "SparseFeat"
                       /\ input_layers[i].shape = <<1>>

\* C10: when behavior_feature_list is at least as long as
\* behavior_seq_feature_list and the pooling loop has run through, DIN has
\* collected one pooled vector per entry of behavior_seq_feature_list, the
\* i-th being the attention pooling of the embedding of the i-th candidate
\* feature (query) with the embeddings of the i-th history feature (keys);
\* the candidate features past the history list are embedded and not pooled.
EmbedOf(name, t) ==
    /\ t.op = "Embedding"
    /\ t.layer = name
    /\ t.args = <<DictGet(input_layer_dict, name)>>

C10_PairedByPosition ==
    ( /\ Done
      /\ PoolingDone
      /\ Len(behavior_feature_list) >= Len(behavior_seq_feature_list) )
    => /\ Len(dnn_seq_input_list) = Len(behavior_seq_feature_list)
       /\ Len(query_embed_list) = Len(behavior_feature_list)
       /\ Len(keys_embed_list) = Len(behavior_seq_feature_list)
       /\ \A i \in 1..Len(behavior_feature_list) :
             EmbedOf(behavior_feature_list[i], query_embed_list[i])
       /\ \A i \in 1..Len(behavior_seq_feature_list) :
             /\ EmbedOf(behavior_seq_feature_list[i], keys_embed_list[i])
             /\ dnn_seq_input_list[i].op = "AttentionPooling"
             /\ dnn_seq_input_list[i].args =
                   <<query_embed_list[i], keys_embed_list[i]>>

C10_Witness ==
    /\ pc = "returned"
    /\ Len(behavior_feature_list) = 2
    /\ Len(behavior_seq_feature_list) = 1
    /\ behavior_feature_list[1] # behavior_feature_list[2]
    /\ Len(query_embed_list) = 2
    /\ Len(dnn_seq_input_list) = 1
    /\ dnn_seq_input_list[1].args = <<query_embed_list[1], keys_embed_list[1]>>

====
